---------------------------- MODULE Spec2Model ----------------------------
(***************************************************************************)
(* AI-Agents: the CLI shell (agents.py), the YouTubeSummarizer pipeline    *)
(* (classes/YouTubeSummarizer.py) and the MultiToolsAgent pipeline         *)
(* (classes/MultiTools.py).                                                *)
(*                                                                         *)
(* Text that the code inspects character by character (URLs, video ids,    *)
(* transcript segments, transcripts, questions, model responses) is a      *)
(* sequence of one-character strings.  Text the code only builds and       *)
(* passes on (exception messages, tool names and descriptions) is a        *)
(* string.                                                                 *)
(*                                                                         *)
(* Two specifications:                                                     *)
(*   Spec     the program: main() of agents.py driving both pipelines;     *)
(*   SpecApi  a client that constructs the two classes and calls their     *)
(*            public methods directly, one call at a time.                 *)
(***************************************************************************)
EXTENDS Integers, Sequences, FiniteSets, TLC

VARIABLES
    shell,             \* main(): "boot", "menu", "busy", "exited"; "client" under SpecApi
    exit_code,         \* "none", or the code given to sys.exit
    choice,            \* the menu choice read last ("" before the first)
    stdout,            \* the lines printed since the menu was last shown / the call began
    call,              \* the method being executed: "none", "process_video", "ask", ...
    pc,                \* its position: "idle", a stage, "returned" or "raised"
    stages,            \* the stages this invocation has begun, in order
    url,               \* process_video / get_video_id argument
    video_id,          \* get_transcript argument (a Python value: None or a str)
    segments,          \* what the transcript service delivered to this invocation
    transcript,        \* the joined transcript
    question,          \* ask argument (a Python value: None or a str)
    model,             \* the ChatGroq client this invocation constructed, or NoModel
    transcript_calls,  \* transcript-service calls made by this invocation
    completion_calls,  \* completion-client calls made by this invocation (their options)
    result,            \* what the invocation returned or raised
    agent,             \* "none", or "ready" once MultiToolsAgent() has been constructed
    tools,             \* MultiToolsAgent.tools
    tools_str,         \* MultiToolsAgent.tools_str
    tool_names         \* MultiToolsAgent.tool_names

vars == <<shell, exit_code, choice, stdout, call, pc, stages, url, video_id, segments,
          transcript, question, model, transcript_calls, completion_calls, result,
          agent, tools, tools_str, tool_names>>

frame == <<call, pc, stages, url, video_id, segments, transcript, question, model,
           transcript_calls, completion_calls, result>>

agentVars == <<agent, tools, tools_str, tool_names>>

shellVars == <<shell, exit_code, choice>>

-----------------------------------------------------------------------------
(* Bounds of the model.                                                    *)

\* a URL given to get_video_id is a concatenation of at most this many fragments
MaxUrlParts == 4

\* the transcript service delivers at most this many segments
MaxSegments == 3

-----------------------------------------------------------------------------
(* Python values and outcomes.                                             *)

PyNone == [isNone |-> TRUE, text |-> <<>>]

PyStr(s) == [isNone |-> FALSE, text |-> s]

\* Python truthiness of None / str: `not v` is True for None and for ""
Falsy(v) == v.isNone \/ v.text = <<>>

NoResult == [kind |-> "none", value |-> <<>>, type |-> "", msg |-> ""]

Return(v) == [kind |-> "return", value |-> v, type |-> "", msg |-> ""]

Raise(t, m) == [kind |-> "raise", value |-> <<>>, type |-> t, msg |-> m]

-----------------------------------------------------------------------------
(* str operations, as Python computes them.                                *)

\* sub in s
Contains(sub, s) ==
    \E i \in 0..(Len(s) - Len(sub)) : SubSeq(s, i + 1, i + Len(sub)) = sub

\* s.find(sep), 1-based; 0 when sep does not occur
Find(s, sep) ==
    IF Contains(sep, s)
    THEN CHOOSE i \in 1..(Len(s) - Len(sep) + 1) :
            /\ SubSeq(s, i, i + Len(sep) - 1) = sep
            /\ \A j \in 1..(i - 1) : SubSeq(s, j, j + Len(sep) - 1) # sep
    ELSE 0

\* s.split(sep) for a non-empty sep: the pieces between the non-overlapping
\* occurrences of sep, scanned left to right; <<s>> when sep does not occur
RECURSIVE Split(_, _)
Split(s, sep) ==
    LET i == Find(s, sep)
    IN  IF i = 0
        THEN <<s>>
        ELSE <<SubSeq(s, 1, i - 1)>> \o Split(SubSeq(s, i + Len(sep), Len(s)), sep)

\* sep.join(parts)
RECURSIVE Join(_, _)
Join(sep, parts) ==
    IF parts = <<>> THEN <<>>
    ELSE IF Len(parts) = 1 THEN parts[1]
    ELSE parts[1] \o sep \o Join(sep, Tail(parts))

-----------------------------------------------------------------------------
(* YouTubeSummarizer.get_video_id                                          *)

YOUTU_BE == <<"y", "o", "u", "t", "u", ".", "b", "e">>

YOUTUBE_COM == <<"y", "o", "u", "t", "u", "b", "e", ".", "c", "o", "m">>

InvalidUrlMsg == "URL must be a valid YouTube URL (youtube.com or youtu.be format)"

\* a faulty variant: the canonical marker is tested before the shortened one
get_video_id_canon_first(u) ==
    IF Contains(YOUTUBE_COM, u)
    THEN LET parts == Split(u, <<"v", "=">>)
         IN  IF Len(parts) < 2
             THEN Raise("IndexError", "list index out of range")
             ELSE Return(Split(parts[2], <<"&">>)[1])
    ELSE IF Contains(YOUTU_BE, u)
    THEN LET parts == Split(u, <<"/">>)
         IN  Return(Split(parts[Len(parts)], <<"?">>)[1])
    ELSE Raise("ValueError", InvalidUrlMsg)

\* a faulty variant: any URL that names no video raises the ValueError
get_video_id_strict(u) ==
    IF Contains(YOUTU_BE, u)
    THEN LET parts == Split(u, <<"/">>)
         IN  Return(Split(parts[Len(parts)], <<"?">>)[1])
    ELSE IF Contains(YOUTUBE_COM, u) /\ Len(Split(u, <<"v", "=">>)) >= 2
    THEN Return(Split(Split(u, <<"v", "=">>)[2], <<"&">>)[1])
    ELSE Raise("ValueError", InvalidUrlMsg)

get_video_id(u) ==
    IF Contains(YOUTU_BE, u)
    THEN \* url.split("/")[-1].split("?")[0]
         LET parts == Split(u, <<"/">>)
         IN  Return(Split(parts[Len(parts)], <<"?">>)[1])
    ELSE IF Contains(YOUTUBE_COM, u)
    THEN \* url.split("v=")[1].split("&")[0]; [1] of a one-element list raises
         LET parts == Split(u, <<"v", "=">>)
         IN  IF Len(parts) < 2
             THEN Raise("IndexError", "list index out of range")
             ELSE Return(Split(parts[2], <<"&">>)[1])
    ELSE Raise("ValueError", InvalidUrlMsg)

-----------------------------------------------------------------------------
(* YouTubeSummarizer.get_transcript                                        *)

\* [segment["text"] for segment in transcript_segments]
Texts(segs) == [i \in 1..Len(segs) |-> segs[i].text]

\* a faulty variant: the segment texts are concatenated without a separator
get_transcript_no_space(vid, svc) ==
    IF Falsy(vid)
    THEN Raise("ValueError", "Video ID is required")
    ELSE IF svc.ok
    THEN Return(Join(<<>>, Texts(svc.segs)))
    ELSE Raise("Exception", "Failed to retrieve transcript: " \o svc.msg)

\* svc is what YouTubeTranscriptApi.get_transcript does when it is called:
\* it delivers svc.segs (ok) or raises an error whose str() is svc.msg
get_transcript(vid, svc) ==
    IF Falsy(vid)
    THEN Raise("ValueError", "Video ID is required")
    ELSE IF svc.ok
    THEN Return(Join(<<" ">>, Texts(svc.segs)))
    ELSE Raise("Exception", "Failed to retrieve transcript: " \o svc.msg)

-----------------------------------------------------------------------------
(* The completion client, as each pipeline configures and uses it.         *)

model_name == "llama-3.2-3b-preview"

top_n_points == 5

\* temperature is kept in tenths: 5 stands for 0.5
SummarizeTemperatureTenths == 5

AskTemperatureTenths == 0

MaxRetries == 2

NoModel == [model |-> "", temperature_tenths |-> 0, max_tokens |-> "",
            timeout |-> "", max_retries |-> 0]

\* a faulty variant: the summarizer's client is given a timeout
summarize_options_with_timeout ==
    [model |-> model_name, temperature_tenths |-> SummarizeTemperatureTenths,
     max_tokens |-> "None", timeout |-> "30", max_retries |-> MaxRetries]

\* ChatGroq(...) in summarize
summarize_options ==
    [model |-> model_name, temperature_tenths |-> SummarizeTemperatureTenths,
     max_tokens |-> "None", timeout |-> "None", max_retries |-> MaxRetries]

\* ChatGroq(...) in ask
ask_options ==
    [model |-> model_name, temperature_tenths |-> AskTemperatureTenths,
     max_tokens |-> "None", timeout |-> "None", max_retries |-> MaxRetries]

\* a faulty variant: a failed completion is swallowed and an empty summary returned
summarize_result_swallow(o) ==
    IF o.ok THEN Return(o.text) ELSE Return(<<>>)

\* try: return chain.invoke(transcript) / except: raise Exception(f"...{str(e)}")
summarize_result(o) ==
    IF o.ok
    THEN Return(o.text)
    ELSE Raise("Exception", "AI summarization failed: " \o o.msg)

\* try: return chain.invoke(question) / except: raise Exception(f"...{str(e)}")
ask_result(o) ==
    IF o.ok
    THEN Return(o.text)
    ELSE Raise("Exception", "Error processing question: " \o o.msg)

-----------------------------------------------------------------------------
(* MultiToolsAgent._initialize_tools                                       *)

python_repl ==
    [name |-> "python repl",
     description |-> "Useful for executing Python code to answer computational questions"]

wikipedia ==
    [name |-> "wikipedia",
     description |->
        "Useful for looking up factual information about topics, countries or people"]

\* "".join([f"{t.name}: {t.description}\n" for t in self.tools])
RECURSIVE ToolsStr(_)
ToolsStr(ts) ==
    IF ts = <<>> THEN ""
    ELSE ts[1].name \o ": " \o ts[1].description \o "\n" \o ToolsStr(Tail(ts))

\* [tool.name for tool in self.tools]
ToolNames(ts) == [i \in 1..Len(ts) |-> ts[i].name]

\* a faulty variant: the listing is built before the second tool is registered
initialize_tools_stale ==
    [tools |-> <<python_repl, wikipedia>>,
     tools_str |-> ToolsStr(<<python_repl>>),
     tool_names |-> ToolNames(<<python_repl>>)]

initialize_tools ==
    LET ts == <<python_repl, wikipedia>>
    IN  [tools |-> ts, tools_str |-> ToolsStr(ts), tool_names |-> ToolNames(ts)]

-----------------------------------------------------------------------------
(* Inputs: what the user types, what a client passes, what the services    *)
(* answer.                                                                 *)

Fragments ==
    {YOUTU_BE, YOUTUBE_COM, <<"/">>, <<"?">>, <<"&">>, <<"v", "=">>, <<"a">>, <<"b">>}

RECURSIVE UrlsOfParts(_)
UrlsOfParts(n) ==
    IF n = 0 THEN {<<>>}
    ELSE LET shorter == UrlsOfParts(n - 1)
         IN  shorter \cup {u \o f : u \in shorter, f \in Fragments}

\* the URLs a client passes to get_video_id
UrlSet == UrlsOfParts(MaxUrlParts)

\* https://youtu.be/ab?t=5
U_SHORT ==
    <<"h", "t", "t", "p", "s", ":", "/", "/", "y", "o", "u", "t", "u", ".", "b", "e",
      "/", "a", "b", "?", "t", "=", "5">>

\* https://www.youtube.com/watch?v=XY&t=1
U_CANON ==
    <<"h", "t", "t", "p", "s", ":", "/", "/", "w", "w", "w", ".", "y", "o", "u", "t",
      "u", "b", "e", ".", "c", "o", "m", "/", "w", "a", "t", "c", "h", "?", "v", "=",
      "X", "Y", "&", "t", "=", "1">>

\* https://www.youtube.com/shorts/ab
U_NO_V ==
    <<"h", "t", "t", "p", "s", ":", "/", "/", "w", "w", "w", ".", "y", "o", "u", "t",
      "u", "b", "e", ".", "c", "o", "m", "/", "s", "h", "o", "r", "t", "s", "/", "a",
      "b">>

\* https://youtu.be/
U_SHORT_EMPTY ==
    <<"h", "t", "t", "p", "s", ":", "/", "/", "y", "o", "u", "t", "u", ".", "b", "e",
      "/">>

\* https://vimeo.com/1
U_OTHER ==
    <<"h", "t", "t", "p", "s", ":", "/", "/", "v", "i", "m", "e", "o", ".", "c", "o",
      "m", "/", "1">>

\* the URLs typed at "Enter YouTube video URL: " or passed to process_video
SampleUrls == {U_SHORT, U_CANON, U_NO_V, U_SHORT_EMPTY, U_OTHER, <<>>}

\* the questions typed at "Enter your question: " (input() returns a str)
TypedQuestions == {PyStr(<<"h", "i">>), PyStr(<<>>)}

\* the questions a client passes to ask
ApiQuestions == TypedQuestions \cup {PyNone}

\* the video ids a client passes to get_transcript
ApiVideoIds == {PyStr(<<"a", "b">>), PyStr(<<>>), PyNone}

SegmentTexts == {<<"a">>, <<"b">>, <<"c">>, <<"d", " ", "e">>, <<>>}

\* the segment lists the transcript service can deliver: {text, start, duration}
SegmentLists ==
    UNION {{[i \in 1..n |-> [text |-> f[i], start |-> i - 1, duration |-> 1]] :
                f \in [1..n -> SegmentTexts]} : n \in 0..MaxSegments}

\* str(e) of the errors the services raise
Causes == {"timed out", "429 rate limit"}

\* YouTubeTranscriptApi.get_transcript(video_id): segments, or an error
TranscriptOutcomes ==
    {[ok |-> TRUE, segs |-> sl, msg |-> ""] : sl \in SegmentLists}
        \cup {[ok |-> FALSE, segs |-> <<>>, msg |-> c] : c \in Causes}

\* chain.invoke(...): the model's response text, or an error
CompletionOutcomes ==
    {[ok |-> TRUE, text |-> t, msg |-> ""] : t \in {<<"o", "k">>, <<>>}}
        \cup {[ok |-> FALSE, text |-> <<>>, msg |-> c] : c \in Causes}

\* analyze_prompt: tiktoken counts the tokens, or raises
TokenizerOutcomes ==
    {[ok |-> TRUE, type |-> "", msg |-> ""],
     [ok |-> FALSE, type |-> "KeyError", msg |-> "could not map model to a tokeniser"]}

\* a line (or block) on standard output
Out(kind, text, value) == [kind |-> kind, text |-> text, value |-> value]

-----------------------------------------------------------------------------
(* A method invocation: its frame begins fresh and is dropped at its end.  *)

Begin(c, first, u, vid, q) ==
    /\ call' = c
    /\ pc' = first
    /\ stages' = <<>>
    /\ url' = u
    /\ video_id' = vid
    /\ segments' = <<>>
    /\ transcript' = <<>>
    /\ question' = q
    /\ model' = NoModel
    /\ transcript_calls' = 0
    /\ completion_calls' = <<>>
    /\ result' = NoResult

EndFrame == Begin("none", "idle", <<>>, PyNone, PyNone)

Finish(r) ==
    /\ result' = r
    /\ pc' = IF r.kind = "return" THEN "returned" ELSE "raised"

-----------------------------------------------------------------------------
(* YouTubeSummarizer.process_video, stage by stage.  get_video_id and      *)
(* get_transcript called on their own run the same stage and return.       *)

\* video_id = self.get_video_id(url)
Parse ==
    /\ pc = "parse"
    /\ stages' = Append(stages, "Parse")
    /\ LET r == get_video_id(url)
       IN  IF r.kind = "return" /\ call = "process_video"
           THEN /\ video_id' = PyStr(r.value)
                /\ pc' = "fetch"
                /\ UNCHANGED result
           ELSE /\ Finish(r)
                /\ UNCHANGED video_id
    /\ UNCHANGED <<shellVars, stdout, call, url, segments, transcript, question, model,
                   transcript_calls, completion_calls, agentVars>>

\* a faulty variant: a failed transcript call is tried again in the same invocation
Fetch_retry ==
    /\ pc = "fetch"
    /\ stages' = Append(stages, "Fetch")
    /\ \E svc \in TranscriptOutcomes :
         LET r == get_transcript(video_id, svc)
             called == ~Falsy(video_id)
         IN  /\ transcript_calls' = IF called THEN transcript_calls + 1
                                    ELSE transcript_calls
             /\ segments' = IF called /\ svc.ok THEN svc.segs ELSE segments
             /\ IF r.kind = "return" /\ call = "process_video"
                THEN /\ transcript' = r.value
                     /\ pc' = "render"
                     /\ UNCHANGED result
                ELSE IF called /\ transcript_calls = 0
                THEN UNCHANGED <<transcript, pc, result>>
                ELSE /\ Finish(r)
                     /\ UNCHANGED transcript
    /\ UNCHANGED <<shellVars, stdout, call, url, video_id, question, model,
                   completion_calls, agentVars>>

\* transcript = self.get_transcript(video_id): the service is called once,
\* unless the id is None or empty
Fetch ==
    /\ pc = "fetch"
    /\ stages' = Append(stages, "Fetch")
    /\ \E svc \in TranscriptOutcomes :
         LET r == get_transcript(video_id, svc)
             called == ~Falsy(video_id)
         IN  /\ transcript_calls' = IF called THEN transcript_calls + 1
                                    ELSE transcript_calls
             /\ segments' = IF called /\ svc.ok THEN svc.segs ELSE segments
             /\ IF r.kind = "return" /\ call = "process_video"
                THEN /\ transcript' = r.value
                     /\ pc' = "render"
                     /\ UNCHANGED result
                ELSE /\ Finish(r)
                     /\ UNCHANGED transcript
    /\ UNCHANGED <<shellVars, stdout, call, url, video_id, question, model,
                   completion_calls, agentVars>>

\* summarize, up to the construction of the ChatGroq client: the transcript
\* check, create_prompt, get_prompt_tokens (analyze_prompt counts the tokens,
\* then prints the prompt and the count)
Render ==
    /\ pc = "render"
    /\ call = "process_video"
    /\ stages' = Append(stages, "Render")
    /\ IF transcript = <<>>
       THEN /\ Finish(Raise("ValueError", "Transcript is required for summarization"))
            /\ UNCHANGED <<stdout, model>>
       ELSE \E tok \in TokenizerOutcomes :
              IF tok.ok
              THEN /\ stdout' = Append(stdout, Out("prompt", "Prompt Text: ", transcript))
                   /\ model' = summarize_options
                   /\ pc' = "complete"
                   /\ UNCHANGED result
              ELSE /\ Finish(Raise(tok.type, tok.msg))
                   /\ UNCHANGED <<stdout, model>>
    /\ UNCHANGED <<shellVars, call, url, video_id, segments, transcript, question,
                   transcript_calls, completion_calls, agentVars>>

\* summarize, the try block: the chain renders the prompt, calls the model
\* and parses its output to text
Complete ==
    /\ pc = "complete"
    /\ call = "process_video"
    /\ stages' = Append(stages, "Complete")
    /\ \E o \in CompletionOutcomes :
         /\ completion_calls' =
                Append(completion_calls,
                       [pipeline |-> "summarize", options |-> model, outcome |-> o,
                        prompt |-> [YouTube_Transcript |-> transcript,
                                    top_n |-> top_n_points]])
         /\ Finish(summarize_result(o))
    /\ UNCHANGED <<shellVars, stdout, call, url, video_id, segments, transcript,
                   question, model, transcript_calls, agentVars>>

-----------------------------------------------------------------------------
(* MultiToolsAgent.ask, stage by stage.                                    *)

\* a faulty variant: the None check is missing
AskCheck_missing ==
    /\ pc = "check"
    /\ call = "ask"
    /\ stages' = Append(stages, "Check")
    /\ pc' = "render"
    /\ UNCHANGED <<shellVars, stdout, call, url, video_id, segments, transcript,
                   question, model, transcript_calls, completion_calls, result,
                   agentVars>>

\* if question is None: raise ValueError("Question cannot be None")
AskCheck ==
    /\ pc = "check"
    /\ call = "ask"
    /\ stages' = Append(stages, "Check")
    /\ IF question.isNone
       THEN Finish(Raise("ValueError", "Question cannot be None"))
       ELSE /\ pc' = "render"
            /\ UNCHANGED result
    /\ UNCHANGED <<shellVars, stdout, call, url, video_id, segments, transcript,
                   question, model, transcript_calls, completion_calls, agentVars>>

\* _create_prompt, _analyze_prompt_tokens, ChatGroq(...)
AskRender ==
    /\ pc = "render"
    /\ call = "ask"
    /\ stages' = Append(stages, "Render")
    /\ \E tok \in TokenizerOutcomes :
         IF tok.ok
         THEN /\ stdout' = Append(stdout, Out("prompt", "Prompt Text: ", question.text))
              /\ model' = ask_options
              /\ pc' = "complete"
              /\ UNCHANGED result
         ELSE /\ Finish(Raise(tok.type, tok.msg))
              /\ UNCHANGED <<stdout, model>>
    /\ UNCHANGED <<shellVars, call, url, video_id, segments, transcript, question,
                   transcript_calls, completion_calls, agentVars>>

\* the try block: the chain reads self.tools_str and self.tool_names, renders
\* the prompt, calls the model and parses its output to text
AskComplete ==
    /\ pc = "complete"
    /\ call = "ask"
    /\ stages' = Append(stages, "Complete")
    /\ \E o \in CompletionOutcomes :
         /\ completion_calls' =
                Append(completion_calls,
                       [pipeline |-> "ask", options |-> model, outcome |-> o,
                        prompt |-> [question |-> question.text, tools |-> tools_str,
                                    tool_names |-> tool_names]])
         /\ Finish(ask_result(o))
    /\ UNCHANGED <<shellVars, stdout, call, url, video_id, segments, transcript,
                   question, model, transcript_calls, agentVars>>

-----------------------------------------------------------------------------
(* main() of agents.py.                                                    *)

MenuLines == Out("menu", "Welcome to AI Agents Experiments!", <<>>)

UsingModel == Out("model_name", "Using AI Model: " \o model_name, <<>>)

\* load_dotenv(); the GROQ_API_KEY check
Boot ==
    /\ shell = "boot"
    /\ \E groq_api_key \in {"", "gsk-key"} :
         IF groq_api_key = ""
         THEN /\ stdout' = Append(stdout,
                     Out("no_key", "Error: GROQ_API_KEY not found in environment variables",
                         <<>>))
              /\ exit_code' = "1"
              /\ shell' = "exited"
         ELSE /\ shell' = "menu"
              /\ UNCHANGED <<stdout, exit_code>>
    /\ UNCHANGED <<choice, frame, agentVars>>

\* choice "1": read the URL, construct a YouTubeSummarizer, call process_video
MenuSummarize ==
    /\ shell = "menu"
    /\ choice' = "1"
    /\ \E u \in SampleUrls : Begin("process_video", "parse", u, PyNone, PyNone)
    /\ stdout' = <<MenuLines, UsingModel>>
    /\ shell' = "busy"
    /\ UNCHANGED <<exit_code, agentVars>>

\* choice "2": read the question, construct a MultiToolsAgent, call ask
MenuAsk ==
    /\ shell = "menu"
    /\ choice' = "2"
    /\ \E q \in TypedQuestions : Begin("ask", "check", <<>>, PyNone, q)
    /\ agent' = "ready"
    /\ tools' = initialize_tools.tools
    /\ tools_str' = initialize_tools.tools_str
    /\ tool_names' = initialize_tools.tool_names
    /\ stdout' = <<MenuLines, UsingModel>>
    /\ shell' = "busy"
    /\ UNCHANGED exit_code

\* choice "3": sys.exit(0); SystemExit is no Exception and passes the handler
MenuExit ==
    /\ shell = "menu"
    /\ choice' = "3"
    /\ stdout' = <<MenuLines, Out("goodbye", "Goodbye!", <<>>)>>
    /\ exit_code' = "0"
    /\ shell' = "exited"
    /\ UNCHANGED <<frame, agentVars>>

\* any other choice
MenuInvalid ==
    /\ shell = "menu"
    /\ \E c \in {"", "4", "exit"} : choice' = c
    /\ stdout' = <<MenuLines, Out("invalid", "Invalid choice", <<>>)>>
    /\ UNCHANGED <<shell, exit_code, frame, agentVars>>

\* print(f"LLM Response: \n{response}\n\n")
ShellPrintResponse ==
    /\ shell = "busy"
    /\ pc = "returned"
    /\ stdout' = Append(stdout, Out("response", "LLM Response: ", result.value))
    /\ shell' = "menu"
    /\ EndFrame
    /\ UNCHANGED <<exit_code, choice, agentVars>>

\* a faulty variant: the handler gives up and ends the process
ShellCatch_exit ==
    /\ shell = "busy"
    /\ pc = "raised"
    /\ stdout' = Append(stdout, Out("error", "Error: " \o result.msg, <<>>))
    /\ shell' = "exited"
    /\ exit_code' = "1"
    /\ EndFrame
    /\ UNCHANGED <<choice, agentVars>>

\* except Exception as e: print(f"Error: {str(e)}"); continue
ShellCatch ==
    /\ shell = "busy"
    /\ pc = "raised"
    /\ stdout' = Append(stdout, Out("error", "Error: " \o result.msg, <<>>))
    /\ shell' = "menu"
    /\ EndFrame
    /\ UNCHANGED <<exit_code, choice, agentVars>>

-----------------------------------------------------------------------------
(* A client of the two classes.                                            *)

\* MultiToolsAgent()
ClientConstructAgent ==
    /\ shell = "client"
    /\ call = "none"
    /\ agent = "none"
    /\ agent' = "ready"
    /\ tools' = initialize_tools.tools
    /\ tools_str' = initialize_tools.tools_str
    /\ tool_names' = initialize_tools.tool_names
    /\ UNCHANGED <<shellVars, stdout, frame>>

ClientGetVideoId ==
    /\ shell = "client"
    /\ call = "none"
    /\ \E u \in UrlSet : Begin("get_video_id", "parse", u, PyNone, PyNone)
    /\ stdout' = <<>>
    /\ UNCHANGED <<shellVars, agentVars>>

ClientGetTranscript ==
    /\ shell = "client"
    /\ call = "none"
    /\ \E vid \in ApiVideoIds : Begin("get_transcript", "fetch", <<>>, vid, PyNone)
    /\ stdout' = <<>>
    /\ UNCHANGED <<shellVars, agentVars>>

ClientProcessVideo ==
    /\ shell = "client"
    /\ call = "none"
    /\ \E u \in SampleUrls : Begin("process_video", "parse", u, PyNone, PyNone)
    /\ stdout' = <<>>
    /\ UNCHANGED <<shellVars, agentVars>>

ClientAsk ==
    /\ shell = "client"
    /\ call = "none"
    /\ agent = "ready"
    /\ \E q \in ApiQuestions : Begin("ask", "check", <<>>, PyNone, q)
    /\ stdout' = <<>>
    /\ UNCHANGED <<shellVars, agentVars>>

\* the call returns or raises to the client, which takes what was printed
ClientReturn ==
    /\ shell = "client"
    /\ pc \in {"returned", "raised"}
    /\ EndFrame
    /\ stdout' = <<>>
    /\ UNCHANGED <<shellVars, agentVars>>

-----------------------------------------------------------------------------
(* The specifications.                                                     *)

InitFrame ==
    /\ call = "none"
    /\ pc = "idle"
    /\ stages = <<>>
    /\ url = <<>>
    /\ video_id = PyNone
    /\ segments = <<>>
    /\ transcript = <<>>
    /\ question = PyNone
    /\ model = NoModel
    /\ transcript_calls = 0
    /\ completion_calls = <<>>
    /\ result = NoResult

\* self.tools = []; self.tools_str = ""; self.tool_names = []
InitAgent ==
    /\ agent = "none"
    /\ tools = <<>>
    /\ tools_str = ""
    /\ tool_names = <<>>

Init ==
    /\ shell = "boot"
    /\ exit_code = "none"
    /\ choice = ""
    /\ stdout = <<>>
    /\ InitFrame
    /\ InitAgent

Stage ==
    \/ Parse
    \/ Fetch
    \/ Render
    \/ Complete
    \/ AskCheck
    \/ AskRender
    \/ AskComplete

Next ==
    \/ Boot
    \/ MenuSummarize
    \/ MenuAsk
    \/ MenuExit
    \/ MenuInvalid
    \/ ShellPrintResponse
    \/ ShellCatch
    \/ Stage

Spec == Init /\ [][Next]_vars

InitApi ==
    /\ shell = "client"
    /\ exit_code = "none"
    /\ choice = ""
    /\ stdout = <<>>
    /\ InitFrame
    /\ InitAgent

NextApi ==
    \/ ClientConstructAgent
    \/ ClientGetVideoId
    \/ ClientGetTranscript
    \/ ClientProcessVideo
    \/ ClientAsk
    \/ ClientReturn
    \/ Stage

SpecApi == InitApi /\ [][NextApi]_vars

-----------------------------------------------------------------------------
(* What the claims speak of, stated without the code's own operations.     *)

HasShort(u) ==
    \E i \in 1..(Len(u) - Len(YOUTU_BE) + 1) : SubSeq(u, i, i + Len(YOUTU_BE) - 1) = YOUTU_BE

HasCanon(u) ==
    \E i \in 1..(Len(u) - Len(YOUTUBE_COM) + 1) :
        SubSeq(u, i, i + Len(YOUTUBE_COM) - 1) = YOUTUBE_COM

Max(S) == CHOOSE x \in S : \A y \in S : y <= x

Min(S) == CHOOSE x \in S : \A y \in S : x <= y

\* the positions of character c in s
Positions(s, c) == {i \in 1..Len(s) : s[i] = c}

\* the part of s after its last c (all of s when c does not occur)
AfterLast(s, c) == SubSeq(s, Max(Positions(s, c) \cup {0}) + 1, Len(s))

\* the part of s before its first c (all of s when c does not occur)
BeforeFirst(s, c) == SubSeq(s, 1, Min(Positions(s, c) \cup {Len(s) + 1}) - 1)

\* the positions at which "v=" begins in s
VEqPositions(s) == {i \in 1..(Len(s) - 1) : s[i] = "v" /\ s[i + 1] = "="}

\* the part of s after its first "v="
AfterFirstVEq(s) == SubSeq(s, Min(VEqPositions(s)) + 2, Len(s))

InvalidURL == Raise("ValueError", InvalidUrlMsg)

\* get_video_id has been applied to url
Parsed == stages # <<>> /\ stages[1] = "Parse"

LastOf(q) == q[Len(q)]

-----------------------------------------------------------------------------
(* get_video_id                                                            *)

\* C1: for every URL that contains "youtu.be", also one that contains
\* "youtube.com" as well, get_video_id returns the part of the URL after its
\* last "/", cut before the first "?" of that part.
C1_ShortLinkId ==
    (Parsed /\ HasShort(url)) =>
        LET id == BeforeFirst(AfterLast(url, "/"), "?")
        IN  /\ call = "get_video_id" => result = Return(id)
            /\ call = "process_video" => video_id = PyStr(id)

\* C1 witness: a URL with both markers has been parsed to a non-empty id
C1_Witness ==
    /\ call = "get_video_id"
    /\ pc = "returned"
    /\ HasShort(url)
    /\ HasCanon(url)
    /\ result.value # <<>>

\* C2: for every URL that contains "youtube.com" and not "youtu.be",
\* get_video_id returns an identifier, and where the URL holds a "v=" it is
\* the text after the first "v=" up to the next "&" or the end.
C2_CanonicalId ==
    (call = "get_video_id" /\ Parsed /\ HasCanon(url) /\ ~HasShort(url)) =>
        /\ result.kind = "return"
        /\ VEqPositions(url) # {} => result.value = BeforeFirst(AfterFirstVEq(url), "&")

\* what the canonical branch does: with a "v=" in the URL the identifier runs
\* from the first "v=" to the next "v=", the next "&" or the end, whichever
\* comes first; with none an IndexError is raised
CanonicalIdOrIndexError ==
    (call = "get_video_id" /\ Parsed /\ HasCanon(url) /\ ~HasShort(url)) =>
        IF VEqPositions(url) # {}
        THEN LET rest == AfterFirstVEq(url)
                 piece == SubSeq(rest, 1, Min(VEqPositions(rest) \cup {Len(rest) + 1}) - 1)
             IN  result = Return(BeforeFirst(piece, "&"))
        ELSE result = Raise("IndexError", "list index out of range")

\* C3: get_video_id raises the InvalidURL ValueError exactly for the URLs that
\* contain neither marker; for such a URL process_video ends at Parse with
\* that error, no identifier, no transcript-service call and no completion
\* call.
C3_InvalidUrl ==
    /\ (call \in {"get_video_id", "process_video"} /\ Parsed) =>
          /\ (~HasShort(url) /\ ~HasCanon(url)) => (pc = "raised" /\ result = InvalidURL)
          /\ result = InvalidURL => (~HasShort(url) /\ ~HasCanon(url))
    /\ (call = "process_video" /\ Parsed /\ ~HasShort(url) /\ ~HasCanon(url)) =>
          /\ stages = <<"Parse">>
          /\ video_id = PyNone
          /\ transcript_calls = 0
          /\ completion_calls = <<>>
          /\ model = NoModel

\* C3 witness: process_video has refused https://vimeo.com/1
C3_Witness ==
    /\ call = "process_video"
    /\ url = U_OTHER
    /\ pc = "raised"
    /\ result = InvalidURL

-----------------------------------------------------------------------------
(* get_transcript                                                          *)

RECURSIVE OffsetOf(_, _)
\* where segment i begins in the joined transcript: after the texts before
\* it and one separator for each
OffsetOf(segs, i) ==
    IF i = 1 THEN 0 ELSE OffsetOf(segs, i - 1) + Len(segs[i - 1].text) + 1

\* t is the texts of segs in order, one space between consecutive texts
IsSpaceJoin(t, segs) ==
    LET n == Len(segs)
    IN  /\ Len(t) = IF n = 0 THEN 0 ELSE OffsetOf(segs, n) + Len(segs[n].text)
        /\ \A i \in 1..n :
              SubSeq(t, OffsetOf(segs, i) + 1, OffsetOf(segs, i) + Len(segs[i].text))
                  = segs[i].text
        /\ \A i \in 1..(n - 1) : t[OffsetOf(segs, i + 1)] = " "

\* C4: when the id is non-empty and the transcript service delivers s1..sn,
\* get_transcript returns their texts in delivery order with exactly one
\* space between consecutive texts, none dropped, doubled or moved.
C4_TranscriptJoin ==
    /\ (call = "get_transcript" /\ pc = "returned") =>
          (transcript_calls = 1 /\ IsSpaceJoin(result.value, segments))
    /\ (call = "process_video" /\ pc = "render") =>
          (transcript_calls = 1 /\ IsSpaceJoin(transcript, segments))

\* C4 witness: segments a, b, c have been joined to "a b c"
C4_Witness ==
    /\ call = "get_transcript"
    /\ pc = "returned"
    /\ Len(segments) = 3
    /\ Texts(segments) = << <<"a">>, <<"b">>, <<"c">> >>
    /\ result.value = <<"a", " ", "b", " ", "c">>

-----------------------------------------------------------------------------
(* ask(None)                                                               *)

\* C5: ask(None) raises ValueError("Question cannot be None") before anything
\* else: no prompt is rendered or printed, no completion client is
\* constructed or invoked.
C5_AskNone ==
    (call = "ask" /\ question.isNone /\ pc # "check") =>
        /\ pc = "raised"
        /\ result = Raise("ValueError", "Question cannot be None")
        /\ stages = <<"Check">>
        /\ \A i \in 1..Len(stdout) : stdout[i].kind # "prompt"
        /\ model = NoModel
        /\ completion_calls = <<>>

\* C5 witness: ask(None) has raised
C5_Witness ==
    /\ call = "ask"
    /\ question.isNone
    /\ pc = "raised"

-----------------------------------------------------------------------------
(* Failures of the completion client                                       *)

\* the message prefix each pipeline puts before the cause's message
WrapPrefix(c) ==
    IF c = "process_video" THEN "AI summarization failed: " ELSE "Error processing question: "

\* a pipeline invocation has ended
PipelineEnded == call \in {"process_video", "ask"} /\ pc \in {"returned", "raised"}

\* C6: in both pipelines, when the completion call raises, the pipeline ends by
\* raising an error that wraps the cause and carries its message, and returns
\* no text; text is returned only after a completion call that succeeded, and
\* it is the model's response as it came.
C6_CompletionError ==
    PipelineEnded =>
        /\ (completion_calls # <<>> /\ ~LastOf(completion_calls).outcome.ok) =>
              /\ pc = "raised"
              /\ result = Raise("Exception",
                                WrapPrefix(call) \o LastOf(completion_calls).outcome.msg)
        /\ result.kind = "return" =>
              /\ Len(completion_calls) = 1
              /\ completion_calls[1].outcome.ok
              /\ result.value = completion_calls[1].outcome.text

\* C6 witness: the summarizer's completion call timed out and process_video
\* raised the wrapped error
C6_Witness ==
    /\ call = "process_video"
    /\ pc = "raised"
    /\ completion_calls # <<>>
    /\ ~completion_calls[1].outcome.ok
    /\ result.msg = "AI summarization failed: timed out"

-----------------------------------------------------------------------------
(* The tool registry                                                       *)

\* C7: once a MultiToolsAgent is constructed, and through every ask call, the
\* registry holds python repl then wikipedia, tools_str is one line
\* "<name>: <description>\n" per tool in registry order, tool_names is the
\* names in that order, and every prompt sent carries exactly these.
C7_ToolListing ==
    agent = "ready" =>
        /\ Len(tools) = 2
        /\ tools[1].name = "python repl"
        /\ tools[2].name = "wikipedia"
        /\ tools_str = tools[1].name \o ": " \o tools[1].description \o "\n"
                          \o tools[2].name \o ": " \o tools[2].description \o "\n"
        /\ tool_names = <<tools[1].name, tools[2].name>>
        /\ \A i \in 1..Len(completion_calls) :
              completion_calls[i].pipeline = "ask" =>
                  /\ completion_calls[i].prompt.tools = tools_str
                  /\ completion_calls[i].prompt.tool_names = tool_names

\* C7 witness: an ask call on a constructed agent has sent its prompt
C7_Witness ==
    /\ agent = "ready"
    /\ call = "ask"
    /\ pc = "returned"
    /\ Len(completion_calls) = 1
    /\ completion_calls[1].prompt.tool_names = <<"python repl", "wikipedia">>

-----------------------------------------------------------------------------
(* The stages of process_video                                             *)

AllStages == <<"Parse", "Fetch", "Render", "Complete">>

\* the stages begun so far, given where process_video stands
StagesAt(p) ==
    CASE p = "parse" -> 0
      [] p = "fetch" -> 1
      [] p = "render" -> 2
      [] p = "complete" -> 3
      [] OTHER -> 4

StageOrder ==
    call = "process_video" =>
        /\ Len(stages) <= 4
        /\ stages = SubSeq(AllStages, 1, Len(stages))
        /\ pc \in {"parse", "fetch", "render", "complete"} => Len(stages) = StagesAt(pc)
        /\ pc = "raised" => (stages # <<>> /\ result.kind = "raise")
        /\ pc = "returned" => (stages = AllStages /\ result.kind = "return")
        /\ result.kind = "return" => pc = "returned"
        /\ transcript_calls <= 1
        /\ Len(completion_calls) <= 1
        /\ Len(stages) > 2 => (transcript_calls = 1 /\ IsSpaceJoin(transcript, segments))
        /\ completion_calls # <<>> =>
              (stages = AllStages /\ transcript_calls = 1 /\ transcript # <<>>)

\* a stage that failed is the last thing the invocation does
FailureIsFinal ==
    (call = "process_video" /\ pc = "raised") => (call' = "none" /\ pc' = "idle")

\* C8: process_video runs Parse, Fetch, Render, Complete in that order, each at
\* most once; a stage begins only after the one before succeeded; a failed
\* stage is the last of the invocation and nothing is returned; at most one
\* transcript call and one completion call are made, the completion call only
\* after the transcript call succeeded.
C8_StagesInOrder == []StageOrder /\ [][FailureIsFinal]_vars

\* C8 witness: the transcript call failed and process_video stopped at Fetch
C8_Witness ==
    /\ call = "process_video"
    /\ pc = "raised"
    /\ stages = <<"Parse", "Fetch">>
    /\ transcript_calls = 1
    /\ completion_calls = <<>>

-----------------------------------------------------------------------------
(* The CLI shell                                                           *)

\* the process has ended only at the key check (code 1) or by choice "3"
\* (code 0); while it waits at the menu no pipeline is under way
ShellExits ==
    /\ shell = "exited" =>
          \/ /\ exit_code = "1"
             /\ choice = ""
             /\ LastOf(stdout).kind = "no_key"
          \/ /\ exit_code = "0"
             /\ choice = "3"
             /\ LastOf(stdout).kind = "goodbye"
    /\ shell # "exited" => exit_code = "none"
    /\ shell \in {"boot", "menu", "exited"} => (call = "none" /\ pc = "idle")

\* a failure of either pipeline: its message is printed, the shell is back at
\* the menu, still running, and nothing of the request is left
FailureReturnsToMenu ==
    (shell = "busy" /\ pc = "raised") =>
        /\ shell' = "menu"
        /\ exit_code' = "none"
        /\ stdout' = Append(stdout, Out("error", "Error: " \o result.msg, <<>>))
        /\ call' = "none"
        /\ pc' = "idle"
        /\ stages' = <<>>
        /\ transcript_calls' = 0
        /\ completion_calls' = <<>>
        /\ result' = NoResult

\* every pass through the menu prints the menu first; a choice other than
\* "1", "2", "3" prints "Invalid choice" and stays at the menu
MenuAgain ==
    (shell = "menu" /\ <<shell, choice, stdout>>' # <<shell, choice, stdout>>) =>
        /\ stdout'[1] = MenuLines
        /\ choice' \notin {"1", "2", "3"} =>
              /\ shell' = "menu"
              /\ LastOf(stdout').kind = "invalid"
              /\ UNCHANGED frame

-----------------------------------------------------------------------------
(* The options of the completion client                                    *)

\* C10 as claimed: every completion call is made with temperature 0,
\* max_tokens None, no timeout and at most 2 retries.
C10_AllTemperatureZero ==
    \A i \in 1..Len(completion_calls) :
        LET o == completion_calls[i].options
        IN  /\ o.temperature_tenths = 0
            /\ o.max_tokens = "None"
            /\ o.timeout = "None"
            /\ o.max_retries <= 2

\* C10 as amended: every completion call is made with max_tokens None, no
\* timeout and at most 2 retries; the temperature is 0 in the Multi-Tool
\* Pipeline and 0.5 in the Summarizer Pipeline.
C10_CompletionOptions ==
    \A i \in 1..Len(completion_calls) :
        LET o == completion_calls[i].options
        IN  /\ o.temperature_tenths =
                  IF completion_calls[i].pipeline = "ask" THEN 0 ELSE 5
            /\ o.max_tokens = "None"
            /\ o.timeout = "None"
            /\ o.max_retries <= 2

\* C10 witness: the summarizer has made its completion call at temperature 0.5
C10_Witness ==
    /\ completion_calls # <<>>
    /\ completion_calls[1].pipeline = "summarize"
    /\ completion_calls[1].options.temperature_tenths = 5
    /\ completion_calls[1].options.timeout = "None"

=============================================================================
